---- MODULE Spec2Model ----
(***************************************************************************)
(* Model of the e-hentai downloader: MangaDownloader.download_manga_from_url *)
(* (src/manga_downloader.py) with its helpers, and the UI worker threads    *)
(* that call it (src/ui.py: _download_thread, _retry_thread).               *)
(*                                                                         *)
(* Strings that the code splits or compares (URLs, chain tokens, file      *)
(* contents) are sequences of one-character strings or of byte values.     *)
(***************************************************************************)
EXTENDS Integers, Sequences, FiniteSets, TLC

(***************************************************************************)
(* Bounds of the model.                                                    *)
(***************************************************************************)
\* number of pages of the remote chain
ChainLen == 2
\* fetch exceptions (timeout, connection error, other) injected per call
MaxFaults == 2
\* entries of the failed list a batch retry starts from
MaxFailed == 2

\* longest path segment of the URLs given to parse_url_info on its own
MaxSegment == 2

\* largest page index of those URLs
MaxPageIndex == 12

\* most load_image calls in a body given to _find_next_page_id on its own
MaxCalls == 2

\* most src attributes in a body given to _extract_image_url on its own
MaxSrcs == 3

\* most worker threads alive at a time
MaxThreads == 3

(***************************************************************************)
(* Strings.                                                                *)
(***************************************************************************)
Digits == <<"0", "1", "2", "3", "4", "5", "6", "7", "8", "9">>

IsDigit(c) == \E i \in 1..10 : Digits[i] = c

DigitVal(c) == (CHOOSE i \in 1..10 : Digits[i] = c) - 1

\* str(n) for n >= 0
RECURSIVE Str(_)
Str(n) == IF n < 10 THEN <<Digits[n + 1]>>
          ELSE Str(n \div 10) \o <<Digits[(n % 10) + 1]>>

\* int(s) succeeds on a non-empty run of digits; anything else is a ValueError
IntOk(s) == Len(s) > 0 /\ \A i \in 1..Len(s) : IsDigit(s[i])

RECURSIVE IntVal(_)
IntVal(s) == IF Len(s) = 0 THEN 0
             ELSE 10 * IntVal(SubSeq(s, 1, Len(s) - 1)) + DigitVal(s[Len(s)])

\* s.split(sep): the pieces of s between the occurrences of sep
Split(s, sep) ==
    LET seps  == {i \in 1..Len(s) : s[i] = sep}
        n     == Cardinality(seps)
        \* the position of the m-th separator; 0 and Len(s) + 1 are the ends
        At(m) == IF m = 0 THEN 0
                 ELSE IF m = n + 1 THEN Len(s) + 1
                 ELSE CHOOSE i \in seps : Cardinality({j \in seps : j < i}) = m - 1
    IN [m \in 1..(n + 1) |-> SubSeq(s, At(m - 1) + 1, At(m) - 1)]

(***************************************************************************)
(* URLs.                                                                   *)
(***************************************************************************)
\* the literal prefix of the f-string, "https://e-hentai.org/s/", abbreviated
Origin == <<"h", ":", "/", "/", "e", "-", "h", "/", "s", "/">>

\* f"https://e-hentai.org/s/{id}/{book_id}-{page}"
PageUrl(id, book, page) == Origin \o id \o <<"/">> \o book \o <<"-">> \o Str(page)

\* the same with "-" looked for in the whole URL, not in its last segment
parse_url_info_whole_url(url) ==
    LET parts == Split(url, "/")
        last  == Split(url, "-")
    IN IF Len(last) < 2 \/ ~IntOk(last[2]) \/ Len(parts) < 2
       THEN [ok |-> FALSE, book_id |-> <<>>, current_page |-> 0, current_id |-> <<>>]
       ELSE [ok |-> TRUE, book_id |-> last[1],
             current_page |-> IntVal(last[2]), current_id |-> parts[Len(parts) - 1]]

\* parse_url_info: ok = FALSE stands for the IndexError / ValueError it raises
parse_url_info(url) ==
    LET parts == Split(url, "/")
        last  == Split(parts[Len(parts)], "-")
    IN IF Len(last) < 2 \/ ~IntOk(last[2]) \/ Len(parts) < 2
       THEN [ok |-> FALSE, book_id |-> <<>>, current_page |-> 0, current_id |-> <<>>]
       ELSE [ok |-> TRUE, book_id |-> last[1],
             current_page |-> IntVal(last[2]), current_id |-> parts[Len(parts) - 1]]

(***************************************************************************)
(* State.                                                                  *)
(***************************************************************************)
VARIABLES
    \* MangaDownloaderUI
    is_downloading,     \* self.is_downloading
    ui_failed_urls,     \* self.failed_urls of the UI
    aliased,            \* the UI's list is the running downloader's list object
    folder_name,        \* the folder-name field of the form
    worker,             \* the worker thread: "none", "download", "retry", "finished"
    window,             \* the Tk root window with its buttons, and the process behind it
    threads,            \* worker threads, each at its place in its thread function
    retry_i,            \* index of the list iterator of _retry_thread's for loop
    retry_url,          \* the loop variable url
    retry_success_count,
    retry_failed_count,
    \* one invocation of download_manga_from_url
    pc,                 \* "idle", "enter", "count", "loop", "save", "returned", "raised"
    call,               \* its arguments
    failed_urls,        \* self.failed_urls of the running downloader
    success_count,
    failed_count,
    total_pages,
    current_page_num,
    book_id,
    current_id,
    current_page,
    temp_current_id,
    temp_current_page,
    response,           \* response.text of the last page fetch
    title,
    result,             \* "none", "True", "False", or "raised"
    \* environment
    error_image_data,   \* self.error_image_data
    files,              \* path -> content
    dirs,               \* the directories that exist
    site,               \* the gallery the origin serves: its length and markup style
    faults,             \* fetch exceptions injected in this invocation
    \* history
    page_fetches,       \* page GETs issued by the download pass of this invocation
    last_fetch,         \* URL, page and outcome of the last download-pass GET
    asset_requests,     \* pages whose asset was requested in this invocation
    last_save,          \* page, outcome and payload of the last _download_and_save_image
    first_save,         \* outcome of _download_and_save_image for the page of a single-page call
    pdf_calls,          \* titles generate_pdf was called with in this invocation
    progress,           \* the last percentage given to the observer
    retry_snapshot,     \* the UI's failed list when the batch started
    retry_log,          \* URLs submitted by the batch so far
    \* a pure function of the module applied on its own
    eval                \* the function, its arguments and what it returned

(***************************************************************************)
(* The remote site: a chain of site.len pages of one book.  Page k is      *)
(* served under chain token Tok(k); its body names page k+1's token.       *)
(***************************************************************************)
Book == <<"7">>

Tok(k) == <<"t", Digits[k + 1]>>

Pages == 1..ChainLen

\* Python's None where a str is expected
None == <<"None">>

\* a page without a <title> element
NoTitle == "NoTitle"

\* the value of a src="..." attribute, as its path segments
LoaderSrc == <<"cdn", "jads.js">>

AssetSrc(k) == <<"cdn">> \o Str(k)

\* the load_image(n, 'tok') calls page k embeds; a site that writes its
\* markup compactly leaves out the space after the comma
Calls(k) == IF k < site.len
            THEN <<[num |-> k + 1, spaced |-> ~site.compact, tok |-> Tok(k + 1)]>>
            ELSE <<>>

NormalBody(k) == [banned |-> FALSE, title |-> "T", calls |-> Calls(k),
                  srcs |-> <<LoaderSrc, AssetSrc(k)>>]

\* the loader script is the last src of the page
NoAssetBody(k) == [NormalBody(k) EXCEPT !.srcs = <<LoaderSrc>>]

\* "Your IP address has been temporarily banned"
BannedBody == [banned |-> TRUE, title |-> NoTitle, calls |-> <<>>, srcs |-> <<>>]

\* what the site answers for a token that is not the page's
NotFoundBody == [banned |-> FALSE, title |-> NoTitle, calls |-> <<>>, srcs |-> <<>>]

\* the bodies a GET of f".../s/{id}/{book}-{page}" can return
SiteBodies(id, book, page) ==
    IF book = Book /\ page \in 1..site.len /\ id = Tok(page)
    THEN {NormalBody(page), NoAssetBody(page), BannedBody}
    ELSE {NotFoundBody, BannedBody}

\* the exceptions session.get raises
FetchErrors == {"ReadTimeout", "ConnectionError", "OtherError"}

(***************************************************************************)
(* Content Parser (pure functions of a body).                              *)
(***************************************************************************)
\* _extract_title
extract_title(body) == IF body.title = NoTitle THEN "Unknown_Title" ELSE body.title

\* the characters of one load_image call as they stand in response.text
CallText(c) ==
    <<"load_image", "(">> \o Str(c.num) \o <<",">>
        \o (IF c.spaced THEN <<" ">> ELSE <<>>) \o <<"'">> \o c.tok \o <<"'", ")">>

\* the part of response.text that holds the calls
RECURSIVE Markup(_)
Markup(calls) ==
    IF calls = <<>> THEN <<>>
    ELSE CallText(calls[1]) \o <<";">> \o Markup(Tail(calls))

\* the head of a pattern written without the space after the comma
PatternHeadCompact(n) == <<"load_image", "(">> \o Str(n) \o <<",", "'">>

\* the literal head of the pattern f"load_image\\({n}, '(.*?)'\\)"
PatternHead(n) == <<"load_image", "(">> \o Str(n) \o <<",", " ", "'">>

StartsAt(text, i, head) ==
    /\ i + Len(head) - 1 <= Len(text)
    /\ SubSeq(text, i, i + Len(head) - 1) = head

\* the positions where the lazy group (.*?) can end: the literal ') follows
\* and the group holds no newline
GroupEnds(text, from) ==
    {j \in from..Len(text) :
        /\ j + 1 <= Len(text)
        /\ text[j] = "'"
        /\ text[j + 1] = ")"
        /\ \A m \in from..(j - 1) : text[m] # "\n"}

\* re.findall: the groups of the non-overlapping matches, left to right
RECURSIVE FindAll(_, _, _)
FindAll(text, head, from) ==
    LET starts == {i \in from..Len(text) :
                      StartsAt(text, i, head) /\ GroupEnds(text, i + Len(head)) # {}}
    IN IF starts = {} THEN <<>>
       ELSE LET i == CHOOSE x \in starts : \A y \in starts : x <= y
                e == GroupEnds(text, i + Len(head))
                j == CHOOSE x \in e : \A y \in e : x <= y
            IN <<SubSeq(text, i + Len(head), j - 1)>> \o FindAll(text, head, j + 2)

\* the same with a pattern that does not name the page number
NextMatchesAnyIndex(calls, n) ==
    LET spaced == {i \in 1..Len(calls) : calls[i].spaced}
    IN IF spaced = {} THEN <<>>
       ELSE <<calls[CHOOSE i \in spaced : \A j \in spaced : i <= j].tok>>

\* the matches of load_image\(n, '(.*?)'\) in document order
NextMatches(calls, n) == FindAll(Markup(calls), PatternHead(n), 1)

\* _find_next_page_id
find_next_page_id(body, n) ==
    LET matches == NextMatches(body.calls, n)
    IN IF matches # <<>> THEN matches[1] ELSE None

\* Python truth of an Optional[str]
Truthy(x) == x # None /\ x # <<>>

EndsWithLoader(src) == Len(src) > 0 /\ src[Len(src)] = "jads.js"

\* the same returning the match at the loader's own position
extract_image_url_at_loader(body) ==
    LET m == body.srcs
        hits == {i \in 1..Len(m) : EndsWithLoader(m[i]) /\ i + 1 <= Len(m)}
    IN IF hits = {} THEN None
       ELSE m[CHOOSE i \in hits : \A j \in hits : i <= j]

\* _extract_image_url
extract_image_url(body) ==
    LET m == body.srcs
        hits == {i \in 1..Len(m) : EndsWithLoader(m[i]) /\ i + 1 <= Len(m)}
    IN IF hits = {} THEN None
       ELSE m[(CHOOSE i \in hits : \A j \in hits : i <= j) + 1]

(***************************************************************************)
(* Files.                                                                  *)
(***************************************************************************)
Dirs == {"T", "Unknown_Title", "F"}

\* no file at a path
NoFile == <<-1>>

\* file contents are byte sequences
EmptyBytes == <<>>

\* the bytes of error.jpg, the placeholder the origin serves when blocked
ErrorJpg == <<9>>

\* a page image; its first bytes are those of error.jpg
GoodJpg == <<9, 1>>

AssetData == {EmptyBytes, ErrorJpg, GoodJpg}

Paths == Dirs \X (1..(ChainLen + 1))

ui_vars == <<is_downloading, ui_failed_urls, aliased, folder_name, worker, retry_i,
             retry_url, retry_success_count, retry_failed_count, retry_snapshot,
             retry_log>>

local_vars == <<failed_urls, success_count, failed_count, total_pages,
                current_page_num, book_id, current_id, current_page,
                temp_current_id, temp_current_page, response, title>>

env_vars == <<error_image_data, files, dirs, site>>

hist_vars == <<page_fetches, last_fetch, asset_requests, last_save, first_save,
               pdf_calls, progress>>

vars == <<ui_vars, pc, call, result, local_vars, env_vars, faults, hist_vars, eval,
          window, threads>>

\* the window as created by __init__; it remembers the number of page fetches
\* made when it was destroyed
WindowOpen == [state |-> "open", fetches |-> 0,
               download_btn |-> "normal", retry_btn |-> "normal"]

Slots == 1..MaxThreads

NoThread == [kind |-> "none", at |-> "none", ended |-> "none"]

\* no worker thread has been started
NoThreads == [i \in Slots |-> NoThread]

\* threads run until the interpreter has exited
ProcessAlive == window.state # "exited"

\* custom_folder_name = None
NoFolder == "<None>"

NoCall == [first_url |-> <<>>, custom_folder_name |-> NoFolder,
           progress_callback |-> FALSE, single_page_only |-> FALSE]

NoFetch == [url |-> <<>>, page |-> 0, outcome |-> "none"]

NoSave == [page |-> 0, outcome |-> "none", data |-> NoFile]

NoProgress == [num |-> 0, den |-> 1]

NoEval == [fn |-> "none"]

\* the origin as the downloader meets it: load_image(n, 'tok') with a space
RealSite == [len |-> ChainLen, compact |-> FALSE]

\* the directory the pages of the book go to
DestDir(folder) == IF folder # "" THEN folder ELSE "T"

\* the directory contents a run can start from: nothing, or the pages an
\* earlier run of the same book left in the destination directory
InitialFiles(folder) ==
    {[p \in Paths |-> IF p[1] = DestDir(folder) /\ p[2] \in S THEN GoodJpg ELSE NoFile] :
        S \in {{}, {1}, Pages}}

\* the UI and its downloader after construction
Constructed ==
    /\ is_downloading = FALSE
    /\ ui_failed_urls = <<>>
    /\ aliased = FALSE
    /\ folder_name \in {"", "F"}
    /\ worker = "none"
    /\ retry_i = 0
    /\ retry_url = <<>>
    /\ retry_success_count = 0
    /\ retry_failed_count = 0
    /\ retry_snapshot = <<>>
    /\ retry_log = <<>>
    /\ window = WindowOpen
    /\ threads = NoThreads
    /\ pc = "idle"
    /\ call = NoCall
    /\ result = "none"
    /\ failed_urls = <<>>
    /\ success_count = 0
    /\ failed_count = 0
    /\ total_pages = 0
    /\ current_page_num = 0
    /\ book_id = <<>>
    /\ current_id = <<>>
    /\ current_page = 0
    /\ temp_current_id = <<>>
    /\ temp_current_page = 0
    /\ response = NotFoundBody
    /\ title = "Unknown_Title"
    /\ error_image_data \in {EmptyBytes, ErrorJpg}
    /\ files \in InitialFiles(folder_name)
    /\ dirs = {d \in Dirs : \E p \in Paths : p[1] = d /\ files[p] # NoFile}
    /\ faults = 0
    /\ page_fetches = 0
    /\ last_fetch = NoFetch
    /\ asset_requests = {}
    /\ last_save = NoSave
    /\ first_save = "none"
    /\ pdf_calls = <<>>
    /\ progress = NoProgress

Init ==
    /\ Constructed
    /\ site = RealSite
    /\ eval = NoEval

(***************************************************************************)
(* download_manga_from_url                                                 *)
(***************************************************************************)
\* the UI's list after a step: the downloader's list when it is the same object
UiSees == ui_failed_urls' = IF aliased' THEN failed_urls' ELSE ui_failed_urls

\* MangaDownloaderUI._progress_callback: the UI takes the downloader's list
\* object as its own
AliasAfterCallback == IF call.progress_callback /\ worker = "download"
                      THEN TRUE ELSE aliased

\* lines 93-108 and 128-134: parse the URL, reset the counters, choose the pass
Enter ==
    /\ ProcessAlive
    /\ pc = "enter"
    /\ LET p == parse_url_info(call.first_url)
       IN IF ~p.ok
          THEN /\ pc' = "raised"
               /\ result' = "raised"
               /\ UNCHANGED <<local_vars, aliased, ui_failed_urls>>
          ELSE /\ book_id' = p.book_id
               /\ current_page' = p.current_page
               /\ current_id' = p.current_id
               /\ failed_urls' = <<>>
               /\ success_count' = 0
               /\ failed_count' = 0
               /\ current_page_num' = p.current_page
               /\ temp_current_id' = p.current_id
               /\ temp_current_page' = p.current_page
               /\ UNCHANGED <<response, title, result>>
               /\ IF ~call.single_page_only
                  THEN /\ total_pages' = 0
                       /\ pc' = "count"
                       /\ aliased' = AliasAfterCallback
                  ELSE /\ total_pages' = 1
                       /\ pc' = "loop"
                       /\ UNCHANGED aliased
               /\ UiSees
    /\ UNCHANGED <<is_downloading, folder_name, worker, retry_i, retry_url,
                   retry_success_count, retry_failed_count, retry_snapshot,
                   retry_log, call, env_vars, faults, hist_vars>>
    /\ UNCHANGED <<eval, window, threads>>

\* the download pass going on from where the counting loop stopped
LeaveCountWhereProbed ==
    /\ current_id' = temp_current_id
    /\ current_page' = temp_current_page
    /\ pc' = "loop"

\* lines 132-134: reset for the actual download
LeaveCount ==
    /\ current_id' = parse_url_info(call.first_url).current_id
    /\ current_page' = parse_url_info(call.first_url).current_page
    /\ pc' = "loop"

\* lines 110-127: one iteration of the counting loop
CountPage ==
    /\ ProcessAlive
    /\ pc = "count"
    /\ \/ \* the GET raises: the bare except breaks the loop
          /\ faults < MaxFaults
          /\ faults' = faults + 1
          /\ LeaveCount
          /\ UNCHANGED <<total_pages, temp_current_id, temp_current_page>>
       \/ \E body \in SiteBodies(temp_current_id, book_id, temp_current_page) :
            LET next_page_id == find_next_page_id(body, temp_current_page + 1)
            IN /\ total_pages' = total_pages + 1
               /\ faults' = faults
               /\ IF Truthy(next_page_id)
                  THEN /\ temp_current_id' = next_page_id
                       /\ temp_current_page' = temp_current_page + 1
                       /\ UNCHANGED <<pc, current_id, current_page>>
                  ELSE /\ LeaveCount
                       /\ UNCHANGED <<temp_current_id, temp_current_page>>
    /\ UNCHANGED <<ui_vars, call, result, failed_urls, success_count, failed_count,
                   current_page_num, book_id, response, title, env_vars, hist_vars>>
    /\ UNCHANGED <<eval, window, threads>>

\* a transient failure booked as a failure of the page
OnTransientCounted ==
    /\ failed_urls' = Append(failed_urls, PageUrl(current_id, book_id, current_page))
    /\ failed_count' = failed_count + 1
    /\ pc' = "loop"
    /\ UNCHANGED <<response, title, result>>

\* lines 165-170: ReadTimeout and ConnectionError retry the same page
OnTransient ==
    /\ pc' = "loop"
    /\ UNCHANGED <<failed_urls, failed_count, response, title, result>>

\* lines 171-175: any other exception
OnOtherError(url) ==
    /\ failed_urls' = Append(failed_urls, url)
    /\ failed_count' = failed_count + 1
    /\ pc' = "loop"
    /\ UNCHANGED <<response, title, result>>

\* the ban marker handled like a transient failure
OnBannedRetried ==
    /\ pc' = "loop"
    /\ UNCHANGED <<failed_urls, failed_count, response, title, result>>

\* lines 153-155: the ban marker
OnBanned ==
    /\ pc' = "returned"
    /\ result' = "False"
    /\ UNCHANGED <<failed_urls, failed_count, response, title>>

\* the title without the folder-name override
ResolveTitleNoOverride(body) == extract_title(body)

\* lines 157-163: the title, the remap (empty) and the folder-name override
ResolveTitle(body) ==
    IF call.custom_folder_name # NoFolder /\ call.custom_folder_name # ""
    THEN call.custom_folder_name
    ELSE extract_title(body)

OnBody(body) ==
    /\ response' = body
    /\ title' = ResolveTitle(body)
    /\ pc' = "save"
    /\ UNCHANGED <<failed_urls, failed_count, result>>

\* lines 137-175: the top of the download loop up to the page fetch
DownloadPage ==
    /\ ProcessAlive
    /\ pc = "loop"
    /\ LET url == PageUrl(current_id, book_id, current_page)
       IN IF call.progress_callback /\ total_pages = 0
          THEN \* line 141 divides by total_pages
               /\ pc' = "raised"
               /\ result' = "raised"
               /\ UNCHANGED <<failed_urls, ui_failed_urls, failed_count, response,
                              title, aliased, progress, faults, page_fetches,
                              last_fetch>>
          ELSE /\ aliased' = AliasAfterCallback
               /\ progress' = IF call.progress_callback
                               THEN [num |-> (current_page - current_page_num) * 100,
                                     den |-> total_pages]
                               ELSE progress
               /\ page_fetches' = page_fetches + 1
               /\ \/ \E e \in FetchErrors :
                       /\ faults < MaxFaults
                       /\ faults' = faults + 1
                       /\ last_fetch' = [url |-> url, page |-> current_page,
                                         outcome |-> e]
                       /\ IF e = "OtherError" THEN OnOtherError(url) ELSE OnTransient
                  \/ \E body \in SiteBodies(current_id, book_id, current_page) :
                       /\ faults' = faults
                       /\ last_fetch' = [url |-> url, page |-> current_page,
                                         outcome |-> IF body.banned THEN "RateLimited"
                                                     ELSE "Ok"]
                       /\ IF body.banned THEN OnBanned ELSE OnBody(body)
               /\ UiSees
    /\ UNCHANGED <<is_downloading, folder_name, worker, retry_i, retry_url,
                   retry_success_count, retry_failed_count, retry_snapshot,
                   retry_log, call, success_count, total_pages, current_page_num,
                   book_id, current_id, current_page, temp_current_id,
                   temp_current_page, env_vars, asset_requests, last_save, first_save,
                   pdf_calls>>
    /\ UNCHANGED <<eval, window, threads>>

(***************************************************************************)
(* _download_and_save_image                                                *)
(***************************************************************************)
\* what requests.get of the asset does: a transport exception or a payload
AssetResponses == {[error |-> TRUE, data |-> EmptyBytes]}
                  \cup {[error |-> FALSE, data |-> d] : d \in AssetData}

\* what the filesystem does at mkdir, open and write/close
FsOutcomes == {"ok", "mkdir_error", "open_error", "write_error"}

SaveResult(outcome, raised, requested, wrote, f, d) ==
    [outcome |-> outcome, raised |-> raised, requested |-> requested,
     wrote |-> wrote, files |-> f, dirs |-> d]

\* the same without the image_path.exists() shortcut of lines 233-235
download_and_save_image_no_skip(html_content, dir_name, page_num, net, fs, n) ==
    LET image_path == <<dir_name, page_num>>
        image_url  == extract_image_url(html_content)
        made       == dirs \cup {dir_name}
    IN CASE ~Truthy(image_url) ->
              SaveResult("NoAssetUrl", TRUE, FALSE, FALSE, files, dirs)
         [] net.error ->
              SaveResult("TransportError", TRUE, TRUE, FALSE, files, dirs)
         [] net.data = error_image_data ->
              SaveResult("RejectedAsSentinel", TRUE, TRUE, FALSE, files, dirs)
         [] fs = "mkdir_error" ->
              SaveResult("FilesystemError", TRUE, TRUE, FALSE, files, dirs)
         [] fs = "open_error" ->
              SaveResult("FilesystemError", TRUE, TRUE, FALSE, files, made)
         [] fs = "write_error" ->
              SaveResult("FilesystemError", TRUE, TRUE, TRUE,
                         [files EXCEPT ![image_path] = SubSeq(net.data, 1, n)], made)
         [] OTHER ->
              SaveResult("Saved", FALSE, TRUE, TRUE,
                         [files EXCEPT ![image_path] = net.data], made)

\* lines 231-268.  net and fs are the environment's answers; n is the number
\* of bytes that reached the file when the write fails.  outcome names the
\* DownloadOutcome; raised says whether an exception reaches the caller.
download_and_save_image(html_content, dir_name, page_num, net, fs, n) ==
    LET image_path == <<dir_name, page_num>>
        image_url  == extract_image_url(html_content)
        made       == dirs \cup {dir_name}
    IN CASE files[image_path] # NoFile ->
              SaveResult("AlreadyPresent", FALSE, FALSE, FALSE, files, dirs)
         [] ~Truthy(image_url) ->
              SaveResult("NoAssetUrl", TRUE, FALSE, FALSE, files, dirs)
         [] net.error ->
              SaveResult("TransportError", TRUE, TRUE, FALSE, files, dirs)
         [] net.data = error_image_data ->
              SaveResult("RejectedAsSentinel", TRUE, TRUE, FALSE, files, dirs)
         [] fs = "mkdir_error" ->
              SaveResult("FilesystemError", TRUE, TRUE, FALSE, files, dirs)
         [] fs = "open_error" ->
              SaveResult("FilesystemError", TRUE, TRUE, FALSE, files, made)
         [] fs = "write_error" ->
              SaveResult("FilesystemError", TRUE, TRUE, TRUE,
                         [files EXCEPT ![image_path] = SubSeq(net.data, 1, n)], made)
         [] OTHER ->
              SaveResult("Saved", FALSE, TRUE, TRUE,
                         [files EXCEPT ![image_path] = net.data], made)

\* the advance that keeps the chain token of the page it leaves
AdvanceKeepingToken ==
    LET next_page_id == find_next_page_id(response, current_page + 1)
    IN IF Truthy(next_page_id)
       THEN /\ current_id' = current_id
            /\ current_page' = current_page + 1
            /\ pc' = "loop"
            /\ UNCHANGED <<pdf_calls, result, progress, aliased>>
       ELSE /\ progress' = IF call.progress_callback
                            THEN [num |-> 100, den |-> 1] ELSE progress
            /\ aliased' = AliasAfterCallback
            /\ pdf_calls' = Append(pdf_calls, title)
            /\ pc' = "returned"
            /\ result' = "True"
            /\ UNCHANGED <<current_id, current_page>>

\* lines 185-200: the next-hop token, or the end of the chain
Advance ==
    LET next_page_id == find_next_page_id(response, current_page + 1)
    IN IF Truthy(next_page_id)
       THEN /\ current_id' = next_page_id
            /\ current_page' = current_page + 1
            /\ pc' = "loop"
            /\ UNCHANGED <<pdf_calls, result, progress, aliased>>
       ELSE /\ progress' = IF call.progress_callback
                            THEN [num |-> 100, den |-> 1] ELSE progress
            /\ aliased' = AliasAfterCallback
            /\ pdf_calls' = Append(pdf_calls, title)
            /\ pc' = "returned"
            /\ result' = "True"
            /\ UNCHANGED <<current_id, current_page>>

\* the exception only logged
OnSaveErrorLogged(url) ==
    UNCHANGED <<failed_urls, failed_count, success_count>>

\* lines 180-183: _download_and_save_image raised
OnSaveError(url) ==
    /\ failed_urls' = Append(failed_urls, url)
    /\ failed_count' = failed_count + 1
    /\ UNCHANGED success_count

\* lines 177-200: the asset download, its bookkeeping, and the advance
SaveImage ==
    /\ ProcessAlive
    /\ pc = "save"
    /\ \E net \in AssetResponses, fs \in FsOutcomes :
       \E n \in 0..(IF Len(net.data) > 0 THEN Len(net.data) - 1 ELSE 0) :
         LET url == PageUrl(current_id, book_id, current_page)
             r   == download_and_save_image(response, title, current_page, net, fs, n)
         IN /\ files' = r.files
            /\ dirs' = r.dirs
            /\ asset_requests' = IF r.requested
                                  THEN asset_requests \cup {current_page}
                                  ELSE asset_requests
            /\ last_save' = [page |-> current_page, outcome |-> r.outcome,
                             data |-> IF r.requested /\ ~net.error THEN net.data
                                      ELSE NoFile]
            /\ first_save' = IF call.single_page_only /\ current_page = current_page_num
                              THEN r.outcome ELSE first_save
            /\ IF r.raised
               THEN OnSaveError(url)
               ELSE /\ success_count' = success_count + 1
                    /\ UNCHANGED <<failed_urls, failed_count>>
            /\ Advance
            /\ UiSees
    /\ UNCHANGED <<is_downloading, folder_name, worker, retry_i, retry_url,
                   retry_success_count, retry_failed_count, retry_snapshot,
                   retry_log, call, total_pages, current_page_num, book_id,
                   temp_current_id, temp_current_page, response, title,
                   error_image_data, site, faults, page_fetches, last_fetch>>
    /\ UNCHANGED <<eval, window, threads>>

(***************************************************************************)
(* MangaDownloaderUI: the download worker and the batch-retry worker.      *)
(***************************************************************************)
\* the URLs the user can put in the URL field
StartUrls == {PageUrl(Tok(1), Book, 1), PageUrl(Tok(2), Book, 2), <<"x", "/", "y">>}

\* a call of download_manga_from_url begins
BeginCall(url, cb, single) ==
    /\ pc' = "enter"
    /\ call' = [first_url |-> url,
                custom_folder_name |-> IF folder_name # "" THEN folder_name
                                       ELSE NoFolder,
                progress_callback |-> cb, single_page_only |-> single]
    /\ result' = "none"
    /\ faults' = 0
    /\ page_fetches' = 0
    /\ last_fetch' = NoFetch
    /\ asset_requests' = {}
    /\ last_save' = NoSave
    /\ first_save' = "none"
    /\ pdf_calls' = <<>>
    /\ progress' = NoProgress
    /\ UNCHANGED <<local_vars, env_vars>>

\* start_download and _download_thread up to its call of the downloader
start_download ==
    /\ window.state = "open"
    /\ ~is_downloading
    /\ worker = "none"
    /\ \E url \in StartUrls :
         /\ url # <<>>
         /\ BeginCall(url, TRUE, FALSE)
    /\ is_downloading' = TRUE
    /\ worker' = "download"
    /\ ui_failed_urls' = <<>>
    /\ aliased' = FALSE
    /\ UNCHANGED <<folder_name, retry_i, retry_url, retry_success_count,
                   retry_failed_count, retry_snapshot, retry_log>>
    /\ window' = [window EXCEPT !.download_btn = "disabled"]
    /\ UNCHANGED <<eval, threads>>

\* the locals of a call that has ended, and the record of what it did
DropLocals ==
    /\ failed_urls' = failed_urls
    /\ faults' = 0
    /\ page_fetches' = 0
    /\ last_fetch' = NoFetch
    /\ asset_requests' = {}
    /\ last_save' = NoSave
    /\ first_save' = "none"
    /\ pdf_calls' = <<>>
    /\ progress' = NoProgress
    /\ success_count' = 0
    /\ failed_count' = 0
    /\ total_pages' = 0
    /\ current_page_num' = 0
    /\ book_id' = <<>>
    /\ current_id' = <<>>
    /\ current_page' = 0
    /\ temp_current_id' = <<>>
    /\ temp_current_page' = 0
    /\ response' = NotFoundBody
    /\ title' = "Unknown_Title"

\* _download_thread after the call: lines 1097-1137
download_thread_end ==
    /\ ProcessAlive
    /\ worker = "download"
    /\ pc \in {"returned", "raised"}
    /\ pc' = "idle"
    /\ is_downloading' = FALSE
    /\ worker' = "finished"
    /\ DropLocals
    /\ UNCHANGED <<ui_failed_urls, aliased, folder_name, retry_i, retry_url,
                   retry_success_count, retry_failed_count, retry_snapshot,
                   retry_log, call, result, env_vars>>
    /\ window' = [window EXCEPT !.download_btn = "normal", !.retry_btn = "normal"]
    /\ UNCHANGED <<eval, threads>>

\* retry_failed_downloads and _retry_thread up to its for loop
retry_failed_downloads ==
    /\ window.state = "open"
    /\ ui_failed_urls # <<>>
    /\ ~is_downloading
    /\ worker = "none"
    /\ is_downloading' = TRUE
    /\ worker' = "retry"
    /\ retry_i' = 0
    /\ retry_url' = <<>>
    /\ retry_success_count' = 0
    /\ retry_failed_count' = 0
    /\ retry_snapshot' = ui_failed_urls
    /\ retry_log' = <<>>
    /\ aliased' = FALSE
    /\ UNCHANGED <<ui_failed_urls, folder_name, pc, call, result, local_vars,
                   env_vars, faults, hist_vars>>
    /\ window' = [window EXCEPT !.retry_btn = "disabled"]
    /\ UNCHANGED <<eval, threads>>

\* line 1158: the list iterator yields the next entry, or the loop ends and
\* lines 1181-1193 run
retry_next ==
    /\ ProcessAlive
    /\ worker = "retry"
    /\ pc = "idle"
    /\ IF retry_i < Len(ui_failed_urls)
       THEN /\ retry_url' = ui_failed_urls[retry_i + 1]
            /\ retry_i' = retry_i + 1
            /\ retry_log' = Append(retry_log, ui_failed_urls[retry_i + 1])
            /\ BeginCall(ui_failed_urls[retry_i + 1], FALSE, TRUE)
            /\ UNCHANGED <<is_downloading, worker, window>>
       ELSE /\ is_downloading' = FALSE
            /\ worker' = "finished"
            /\ window' = [window EXCEPT !.retry_btn = "normal"]
            /\ UNCHANGED <<retry_url, retry_i, retry_log, pc, call, result,
                           local_vars, env_vars, faults, hist_vars>>
    /\ UNCHANGED <<ui_failed_urls, aliased, folder_name, retry_success_count,
                   retry_failed_count, retry_snapshot>>
    /\ UNCHANGED <<eval, threads>>

\* list.remove(x): drops the first occurrence
RECURSIVE Remove(_, _)
Remove(list, x) ==
    IF list = <<>> THEN <<>>
    ELSE IF list[1] = x THEN Tail(list)
    ELSE <<list[1]>> \o Remove(Tail(list), x)

\* lines 1171-1179: the outcome of one re-attempt
retry_return ==
    /\ ProcessAlive
    /\ worker = "retry"
    /\ pc \in {"returned", "raised"}
    /\ pc' = "idle"
    /\ IF result = "True"
       THEN /\ retry_success_count' = retry_success_count + 1
            /\ ui_failed_urls' = Remove(ui_failed_urls, retry_url)
            /\ UNCHANGED retry_failed_count
       ELSE /\ retry_failed_count' = retry_failed_count + 1
            /\ UNCHANGED <<retry_success_count, ui_failed_urls>>
    /\ DropLocals
    /\ UNCHANGED <<is_downloading, aliased, folder_name, worker, retry_i, retry_url,
                   retry_snapshot, retry_log, call, result, env_vars>>
    /\ UNCHANGED <<eval, window, threads>>

\* one press of the download button: the download worker from start to end
Next ==
    \/ start_download
    \/ Enter
    \/ CountPage
    \/ DownloadPage
    \/ SaveImage
    \/ download_thread_end

Spec == Init /\ [][Next]_vars

\* the worker thread is scheduled again and again; a fetch that fails is
\* followed by one that succeeds after at most MaxFaults failures
LiveSpec ==
    /\ Init
    /\ [][Next]_vars
    /\ WF_vars(Enter)
    /\ WF_vars(CountPage)
    /\ WF_vars(DownloadPage)
    /\ WF_vars(SaveImage)
    /\ WF_vars(download_thread_end)

\* the failed lists a download leaves: page URLs in encounter order, a URL
\* repeated when the page failed more than once
RECURSIVE Ascending(_)
Ascending(n) ==
    IF n = 0 THEN {<<>>}
    ELSE Ascending(n - 1)
         \cup {Append(l, k) : l \in {x \in Ascending(n - 1) : Len(x) = n - 1},
                               k \in Pages}

FailedLists ==
    {[i \in 1..Len(l) |-> PageUrl(Tok(l[i]), Book, l[i])] :
        l \in {x \in Ascending(MaxFailed) :
                  Len(x) > 0 /\ \A i \in 1..(Len(x) - 1) : x[i] <= x[i + 1]}}

\* the pages whose URL is in a failed list
FailedPages(list) == {k \in Pages : \E i \in 1..Len(list) :
                                       list[i] = PageUrl(Tok(k), Book, k)}

\* the UI after a download that left failures: the failed pages have no file,
\* the other pages of the book are in the destination directory; error.jpg
\* was found at construction
InitRetry ==
    /\ is_downloading = FALSE
    /\ ui_failed_urls \in FailedLists
    /\ aliased = FALSE
    /\ folder_name \in {"", "F"}
    /\ worker = "none"
    /\ retry_i = 0
    /\ retry_url = <<>>
    /\ retry_success_count = 0
    /\ retry_failed_count = 0
    /\ retry_snapshot = <<>>
    /\ retry_log = <<>>
    /\ window = WindowOpen
    /\ threads = NoThreads
    /\ pc = "idle"
    /\ call = NoCall
    /\ result = "none"
    /\ failed_urls = <<>>
    /\ success_count = 0
    /\ failed_count = 0
    /\ total_pages = 0
    /\ current_page_num = 0
    /\ book_id = <<>>
    /\ current_id = <<>>
    /\ current_page = 0
    /\ temp_current_id = <<>>
    /\ temp_current_page = 0
    /\ response = NotFoundBody
    /\ title = "Unknown_Title"
    /\ error_image_data = ErrorJpg
    /\ files = [p \in Paths |->
                  IF p[1] = DestDir(folder_name) /\ p[2] \notin FailedPages(ui_failed_urls)
                  THEN GoodJpg ELSE NoFile]
    /\ dirs = {DestDir(folder_name)}
    /\ site = RealSite
    /\ faults = 0
    /\ page_fetches = 0
    /\ last_fetch = NoFetch
    /\ asset_requests = {}
    /\ last_save = NoSave
    /\ first_save = "none"
    /\ pdf_calls = <<>>
    /\ progress = NoProgress
    /\ eval = NoEval

\* one press of the retry button: the batch-retry worker from start to end
RetryNext ==
    \/ retry_failed_downloads
    \/ retry_next
    \/ Enter
    \/ DownloadPage
    \/ SaveImage
    \/ retry_return

RetrySpec == InitRetry /\ [][RetryNext]_vars

(***************************************************************************)
(* One download of a three-page gallery into an empty directory, from a    *)
(* site that writes load_image(n, 'tok') with or without the space after   *)
(* the comma.                                                              *)
(***************************************************************************)
\* the pages of the gallery walked from end to end
ScenarioPages == 3

InitScenario ==
    /\ Constructed
    /\ folder_name = ""
    /\ error_image_data = ErrorJpg
    /\ \A p \in Paths : files[p] = NoFile
    /\ site \in {[len |-> ScenarioPages, compact |-> c] : c \in BOOLEAN}
    /\ eval = NoEval

ScenarioSpec == InitScenario /\ [][Next]_vars

(***************************************************************************)
(* Closing the window while a download runs.  The worker is a daemon       *)
(* thread: it keeps running after root.destroy() until the interpreter     *)
(* exits, and is then stopped where it stands.                             *)
(***************************************************************************)
\* the user closes the window (WM_DELETE_WINDOW)
on_closing ==
    /\ window.state = "open"
    /\ window' = [window EXCEPT !.state = "destroyed", !.fetches = page_fetches]
    /\ UNCHANGED <<ui_vars, pc, call, result, local_vars, env_vars, faults, hist_vars,
                   eval, threads>>

\* mainloop has returned and the process ends; daemon threads are not joined
interpreter_exit ==
    /\ window.state = "destroyed"
    /\ window' = [window EXCEPT !.state = "exited"]
    /\ UNCHANGED <<ui_vars, pc, call, result, local_vars, env_vars, faults, hist_vars,
                   eval, threads>>

InitClosing ==
    /\ Constructed
    /\ folder_name = ""
    /\ error_image_data = ErrorJpg
    /\ \A p \in Paths : files[p] = NoFile
    /\ site = RealSite
    /\ eval = NoEval

ClosingNext ==
    \/ Next
    \/ on_closing
    \/ interpreter_exit

ClosingSpec == InitClosing /\ [][ClosingNext]_vars

(***************************************************************************)
(* The buttons and the worker threads they start, statement by statement   *)
(* at the end of a thread function.  What a worker does inside its try     *)
(* block (the traversal, the batch) is one step here.                      *)
(***************************************************************************)
\* a worker thread that has just been started
Started(kind) == [kind |-> kind, at |-> "try", ended |-> "no"]

FreeSlots == {i \in Slots : threads[i] = NoThread}

\* Thread(...).start()
StartThread(kind) ==
    \E i \in FreeSlots :
        /\ \A j \in FreeSlots : i <= j
        /\ threads' = [threads EXCEPT ![i] = Started(kind)]

\* the failed lists a worker can leave to the UI
UiLists == {<<>>, <<PageUrl(Tok(1), Book, 1)>>}

\* lines 1046-1053: start_download returns without starting a worker
DownloadRefused(url) == is_downloading \/ url = <<>>

\* the command of download_btn: start_download, lines 1044-1061
download_btn_command ==
    /\ window.state = "open"
    /\ window.download_btn = "normal"
    /\ FreeSlots # {}
    /\ \E url \in {<<>>, PageUrl(Tok(1), Book, 1)} :
         IF DownloadRefused(url)
         THEN UNCHANGED <<is_downloading, window, threads>>
         ELSE /\ is_downloading' = TRUE
              /\ window' = [window EXCEPT !.download_btn = "disabled"]
              /\ StartThread("download")
    /\ UNCHANGED <<ui_failed_urls, aliased, folder_name, worker, retry_i, retry_url,
                   retry_success_count, retry_failed_count, retry_snapshot, retry_log,
                   pc, call, result, local_vars, env_vars, faults, hist_vars, eval>>

\* retry_failed_downloads looking at the list only
RetryRefusedIfEmpty == ui_failed_urls = <<>>

\* lines 1012-1018: retry_failed_downloads returns without starting a worker
RetryRefused == ui_failed_urls = <<>> \/ is_downloading

\* the command of retry_btn and of retry_all_btn, which is never disabled:
\* retry_failed_downloads, lines 1010-1026
retry_btn_command ==
    /\ window.state = "open"
    /\ FreeSlots # {}
    /\ IF RetryRefused
       THEN UNCHANGED <<is_downloading, window, threads>>
       ELSE /\ is_downloading' = TRUE
            /\ window' = [window EXCEPT !.retry_btn = "disabled"]
            /\ StartThread("retry")
    /\ UNCHANGED <<ui_failed_urls, aliased, folder_name, worker, retry_i, retry_url,
                   retry_success_count, retry_failed_count, retry_snapshot, retry_log,
                   pc, call, result, local_vars, env_vars, faults, hist_vars, eval>>

\* _download_thread, lines 1064-1132: the try block and its except clause
download_thread_try(i) ==
    /\ threads[i].kind = "download"
    /\ threads[i].at = "try"
    /\ \E how \in {"normal", "exception"} :
         threads' = [threads EXCEPT ![i].at = "finally", ![i].ended = how]
    /\ ui_failed_urls' \in UiLists
    /\ UNCHANGED <<is_downloading, aliased, folder_name, worker, retry_i, retry_url,
                   retry_success_count, retry_failed_count, retry_snapshot, retry_log,
                   pc, call, result, local_vars, env_vars, faults, hist_vars, eval,
                   window>>

\* _retry_thread, lines 1140-1189: the try block and its except clause
retry_thread_try(i) ==
    /\ threads[i].kind = "retry"
    /\ threads[i].at = "try"
    /\ IF ui_failed_urls = <<>>
       THEN /\ threads' = [threads EXCEPT ![i].at = "finally", ![i].ended = "early"]
            /\ UNCHANGED ui_failed_urls
       ELSE /\ \E how \in {"normal", "exception"} :
                 threads' = [threads EXCEPT ![i].at = "finally", ![i].ended = how]
            /\ ui_failed_urls' \in {<<>>, ui_failed_urls}
    /\ UNCHANGED <<is_downloading, aliased, folder_name, worker, retry_i, retry_url,
                   retry_success_count, retry_failed_count, retry_snapshot, retry_log,
                   pc, call, result, local_vars, env_vars, faults, hist_vars, eval,
                   window>>

\* the flag reset at the end of the try block, not in a finally clause
FlagAfterTryOnly(t) == IF t.ended = "normal" THEN FALSE ELSE is_downloading

\* lines 1134-1135 and 1191-1192: finally: self.is_downloading = False
FlagAfterFinally(t) == FALSE

thread_finally(i) ==
    /\ threads[i].at = "finally"
    /\ is_downloading' = FlagAfterFinally(threads[i])
    /\ threads' = [threads EXCEPT ![i].at = IF threads[i].kind = "download"
                                             THEN "download_btn" ELSE "retry_btn"]
    /\ UNCHANGED <<ui_failed_urls, aliased, folder_name, worker, retry_i, retry_url,
                   retry_success_count, retry_failed_count, retry_snapshot, retry_log,
                   pc, call, result, local_vars, env_vars, faults, hist_vars, eval,
                   window>>

\* line 1136: self.download_btn.config(state="normal")
thread_download_btn(i) ==
    /\ threads[i].at = "download_btn"
    /\ window' = [window EXCEPT !.download_btn = "normal"]
    /\ threads' = [threads EXCEPT ![i].at = "retry_btn"]
    /\ UNCHANGED <<ui_vars, pc, call, result, local_vars, env_vars, faults, hist_vars,
                   eval>>

\* lines 1137 and 1193: self.retry_btn.config(state="normal"); the thread ends
thread_retry_btn(i) ==
    /\ threads[i].at = "retry_btn"
    /\ window' = [window EXCEPT !.retry_btn = "normal"]
    /\ threads' = [threads EXCEPT ![i] = NoThread]
    /\ UNCHANGED <<ui_vars, pc, call, result, local_vars, env_vars, faults, hist_vars,
                   eval>>

\* one statement of worker thread i
ThreadStep(i) ==
    \/ download_thread_try(i)
    \/ retry_thread_try(i)
    \/ thread_finally(i)
    \/ thread_download_btn(i)
    \/ thread_retry_btn(i)

UiNext ==
    \/ download_btn_command
    \/ retry_btn_command
    \/ \E i \in Slots : ThreadStep(i)

UiSpec == InitClosing /\ [][UiNext]_vars

\* every worker thread keeps being scheduled
UiLiveSpec == UiSpec /\ \A i \in Slots : WF_vars(ThreadStep(i))

(***************************************************************************)
(* _download_and_save_image called by several workers at once on the same  *)
(* filesystem: each call is the test of lines 233-235 followed, later, by  *)
(* the rest of the function.                                               *)
(***************************************************************************)
\* the directories the concurrent callers save to
SaveDirs == {"T", "F"}

\* line 231: the call with its arguments; the page body has an asset URL
save_call(i) ==
    /\ ProcessAlive
    /\ i \in FreeSlots
    /\ \A j \in FreeSlots : i <= j
    /\ \E d \in SaveDirs, p \in 1..ChainLen :
         threads' = [threads EXCEPT ![i] =
                        [kind |-> "save", at |-> "exists", ended |-> "none",
                         dir_name |-> d, page_num |-> p,
                         wrote |-> FALSE, found |-> NoFile]]
    /\ UNCHANGED <<ui_vars, pc, call, result, local_vars, env_vars, faults,
                   hist_vars, eval, window>>

\* lines 233-235: if image_path.exists(): return True
save_exists(i) ==
    /\ ProcessAlive
    /\ threads[i].kind = "save"
    /\ threads[i].at = "exists"
    /\ threads' = IF files[<<threads[i].dir_name, threads[i].page_num>>] # NoFile
                  THEN [threads EXCEPT ![i].at = "returned",
                                       ![i].ended = "AlreadyPresent"]
                  ELSE [threads EXCEPT ![i].at = "get"]
    /\ UNCHANGED <<ui_vars, pc, call, result, local_vars, env_vars, faults,
                   hist_vars, eval, window>>

\* lines 237-268: the asset URL, the GET, the sentinel comparison, mkdir, open
\* and write.  found is what was at image_path when this call came to write.
save_rest(i) ==
    /\ ProcessAlive
    /\ threads[i].kind = "save"
    /\ threads[i].at = "get"
    /\ \E net \in AssetResponses, fs \in FsOutcomes :
       \E n \in 0..(IF Len(net.data) > 0 THEN Len(net.data) - 1 ELSE 0) :
         LET d == threads[i].dir_name
             p == threads[i].page_num
             r == download_and_save_image_no_skip(NormalBody(p), d, p, net, fs, n)
         IN /\ files' = r.files
            /\ dirs' = r.dirs
            /\ threads' = [threads EXCEPT ![i].at = "returned",
                                          ![i].ended = r.outcome,
                                          ![i].wrote = r.wrote,
                                          ![i].found = files[<<d, p>>]]
    /\ UNCHANGED <<ui_vars, pc, call, result, local_vars, error_image_data, site,
                   faults, hist_vars, eval, window>>

SaveNext == \E i \in Slots : save_call(i) \/ save_exists(i) \/ save_rest(i)

SaveSpec == InitClosing /\ [][SaveNext]_vars

(***************************************************************************)
(* download_manga_from_url invoked again on the same MangaDownloader while *)
(* an earlier invocation is still in its loop.  failed_urls is the         *)
(* attribute self.failed_urls of the one instance; failed_count and the    *)
(* page are locals of each invocation.  recorded is the history of the     *)
(* URLs the invocation appended, seen the list it leaves to its caller.    *)
(***************************************************************************)
\* lines 79-93: the call; the traversal starts at some page of the book
traversal_call(i) ==
    /\ ProcessAlive
    /\ i \in FreeSlots
    /\ \A j \in FreeSlots : i <= j
    /\ \E p \in 1..ChainLen :
         threads' = [threads EXCEPT ![i] =
                        [kind |-> "traversal", at |-> "line94", ended |-> "none",
                         current_page |-> p, failed_count |-> 0,
                         recorded |-> <<>>, seen |-> <<>>]]
    /\ UNCHANGED <<ui_vars, pc, call, result, local_vars, env_vars, faults,
                   hist_vars, eval, window>>

\* line 94: self.failed_urls = []
traversal_line94(i) ==
    /\ ProcessAlive
    /\ threads[i].kind = "traversal"
    /\ threads[i].at = "line94"
    /\ failed_urls' = <<>>
    /\ threads' = [threads EXCEPT ![i].at = "loop"]
    /\ UNCHANGED <<ui_vars, pc, call, result, success_count, failed_count,
                   total_pages, current_page_num, book_id, current_id, current_page,
                   temp_current_id, temp_current_page, response, title, env_vars,
                   faults, hist_vars, eval, window>>

\* lines 177-190: one page; its asset is saved, or the save raises and the
\* page URL is appended to self.failed_urls (lines 180-183); then the advance
traversal_page(i) ==
    /\ ProcessAlive
    /\ threads[i].kind = "traversal"
    /\ threads[i].at = "loop"
    /\ threads[i].current_page <= ChainLen
    /\ LET p   == threads[i].current_page
           url == PageUrl(Tok(p), Book, p)
       IN \/ /\ threads' = [threads EXCEPT ![i].current_page = p + 1]
             /\ UNCHANGED failed_urls
          \/ /\ failed_urls' = Append(failed_urls, url)
             /\ threads' = [threads EXCEPT
                               ![i].current_page = p + 1,
                               ![i].failed_count = threads[i].failed_count + 1,
                               ![i].recorded = Append(threads[i].recorded, url)]
    /\ UNCHANGED <<ui_vars, pc, call, result, success_count, failed_count,
                   total_pages, current_page_num, book_id, current_id, current_page,
                   temp_current_id, temp_current_page, response, title, env_vars,
                   faults, hist_vars, eval, window>>

\* lines 191-202: no next page; the summary reads self.failed_urls, and the
\* caller finds it in the attribute after return True
traversal_return(i) ==
    /\ ProcessAlive
    /\ threads[i].kind = "traversal"
    /\ threads[i].at = "loop"
    /\ threads[i].current_page > ChainLen
    /\ threads' = [threads EXCEPT ![i].at = "returned", ![i].ended = "normal",
                                  ![i].seen = failed_urls]
    /\ UNCHANGED <<ui_vars, pc, call, result, local_vars, env_vars, faults,
                   hist_vars, eval, window>>

OverlapNext ==
    \E i \in Slots : \/ traversal_call(i)
                     \/ traversal_line94(i)
                     \/ traversal_page(i)
                     \/ traversal_return(i)

OverlapSpec == InitClosing /\ [][OverlapNext]_vars

(***************************************************************************)
(* The pure functions applied on their own.                                *)
(***************************************************************************)
\* nothing is running: the downloader as constructed, error.jpg found
AtRest ==
    /\ Constructed
    /\ folder_name = ""
    /\ error_image_data = ErrorJpg
    /\ \A p \in Paths : files[p] = NoFile
    /\ site = RealSite

\* the non-empty strings over an alphabet, up to a length
RECURSIVE Strings(_, _)
Strings(alphabet, n) ==
    IF n = 0 THEN {<<>>}
    ELSE Strings(alphabet, n - 1)
         \cup {Append(w, c) : w \in {x \in Strings(alphabet, n - 1) : Len(x) = n - 1},
                               c \in alphabet}

\* a chain token is a path segment: any characters but "/"
ChainTokens == Strings({"a", "-", "1"}, MaxSegment) \ {<<>>}

\* a book id is the part of the last segment before "-"
BookIds == Strings({"7", "b"}, MaxSegment) \ {<<>>}

PageIdentities ==
    {[chainToken |-> t, bookId |-> b, pageIndex |-> n] :
        t \in ChainTokens, b \in BookIds, n \in 1..MaxPageIndex}

InitUrl ==
    /\ AtRest
    /\ \E a \in PageIdentities :
         eval = [fn |-> "parse_url_info", args |-> a, done |-> FALSE,
                 ret |-> parse_url_info(<<>>)]

\* line 137 builds the URL of a page identity, parse_url_info takes it apart
UrlRoundTrip ==
    /\ eval.fn = "parse_url_info"
    /\ ~eval.done
    /\ eval' = [eval EXCEPT
                  !.done = TRUE,
                  !.ret = parse_url_info(PageUrl(eval.args.chainToken, eval.args.bookId,
                                                 eval.args.pageIndex))]
    /\ UNCHANGED <<ui_vars, pc, call, result, local_vars, env_vars, faults, hist_vars,
                   window, threads>>

UrlSpec == InitUrl /\ [][UrlRoundTrip]_vars

\* the load_image calls a body can hold: the expected index, indices that
\* contain it as a prefix or a suffix, with and without the space
CallForms ==
    {[num |-> n, spaced |-> sp, tok |-> t] :
        n \in {1, 2, 12, 20, 21}, sp \in BOOLEAN, t \in {<<"a">>, <<"b">>}}

RECURSIVE CallLists(_)
CallLists(n) ==
    IF n = 0 THEN {<<>>}
    ELSE CallLists(n - 1)
         \cup {Append(l, c) : l \in {x \in CallLists(n - 1) : Len(x) = n - 1},
                               c \in CallForms}

InitNextId ==
    /\ AtRest
    /\ \E cs \in CallLists(MaxCalls), k \in {1, 2} :
         eval = [fn |-> "_find_next_page_id",
                 args |-> [html_content |-> [NotFoundBody EXCEPT !.calls = cs],
                           next_page_num |-> k],
                 done |-> FALSE, ret |-> None]

apply_find_next_page_id ==
    /\ eval.fn = "_find_next_page_id"
    /\ ~eval.done
    /\ eval' = [eval EXCEPT
                  !.done = TRUE,
                  !.ret = find_next_page_id(eval.args.html_content,
                                            eval.args.next_page_num)]
    /\ UNCHANGED <<ui_vars, pc, call, result, local_vars, env_vars, faults, hist_vars,
                   window, threads>>

NextIdSpec == InitNextId /\ [][apply_find_next_page_id]_vars

\* the src values a body can hold: the loader script under two paths, a value
\* that has the marker but not at its end, the page image, an unrelated image
SrcForms == {LoaderSrc, <<"x", "jads.js">>, <<"jads.js", "v">>, AssetSrc(1),
             <<"ad", "png">>}

RECURSIVE SrcLists(_)
SrcLists(n) ==
    IF n = 0 THEN {<<>>}
    ELSE SrcLists(n - 1)
         \cup {Append(l, c) : l \in {x \in SrcLists(n - 1) : Len(x) = n - 1},
                               c \in SrcForms}

InitImageUrl ==
    /\ AtRest
    /\ \E m \in SrcLists(MaxSrcs) :
         eval = [fn |-> "_extract_image_url",
                 args |-> [html_content |-> [NotFoundBody EXCEPT !.srcs = m]],
                 done |-> FALSE, ret |-> None]

apply_extract_image_url ==
    /\ eval.fn = "_extract_image_url"
    /\ ~eval.done
    /\ eval' = [eval EXCEPT !.done = TRUE,
                             !.ret = extract_image_url(eval.args.html_content)]
    /\ UNCHANGED <<ui_vars, pc, call, result, local_vars, env_vars, faults, hist_vars,
                   window, threads>>

ImageUrlSpec == InitImageUrl /\ [][apply_extract_image_url]_vars

(***************************************************************************)
(* MangaDownloader.generate_pdf on a directory of page images.             *)
(***************************************************************************)
\* the characters of the image file names, in code point order
NameChars == <<".", "0", "1", "2", "3", "4", "5", "6", "7", "8", "9", "g", "j", "p">>

Ord(c) == CHOOSE i \in 1..Len(NameChars) : NameChars[i] = c

\* a < b on Python strings: by code point at the first difference, a proper
\* prefix first
StrLess(a, b) ==
    \E k \in 1..Len(b) :
        /\ k <= Len(a) + 1
        /\ \A j \in 1..(k - 1) : a[j] = b[j]
        /\ (k <= Len(a) => Ord(a[k]) < Ord(b[k]))

\* line 231: f"{page_num}.jpg"
image_name(page_num) == Str(page_num) \o <<".", "j", "p", "g">>

\* lines 301-304: the globs of "*.jpg", "*.JPG", "*.webp", "*.WEBP" one after
\* the other.  pathlib matches without regard to case where the path flavour
\* does (Windows): there "*.jpg" and "*.JPG" each list every <n>.jpg.
\* The result is the number of times each page's file is listed.
glob_image_files(pages, ignorecase) ==
    [p \in pages |-> IF ignorecase THEN 2 ELSE 1]

\* line 311: image_files.sort(key=lambda x: x.name), as the sequence of the
\* pages whose files are listed, equal names next to each other
SortByName(listed) ==
    LET pages   == DOMAIN listed
        Before(p) == {q \in pages : StrLess(image_name(q), image_name(p))}
        Count(S)  == IF S = {} THEN 0
                     ELSE LET q == CHOOSE q \in S : TRUE IN Cardinality(S) * listed[q]
        total   == Count(pages)
    IN [k \in 1..total |->
           CHOOSE p \in pages : /\ Count(Before(p)) < k
                                /\ k <= Count(Before(p)) + listed[p]]

\* lines 290-330: False without image files; else the PDF has one page per
\* listed file, in the sorted order (the first image, then append_images)
generate_pdf(pages, ignorecase) ==
    LET image_files == glob_image_files(pages, ignorecase)
    IN IF pages = {}
       THEN [ok |-> FALSE, pdf |-> <<>>]
       ELSE [ok |-> TRUE, pdf |-> SortByName(image_files)]

\* the directories generate_pdf can find: any set of downloaded pages
InitPdf ==
    /\ AtRest
    /\ \E pages \in SUBSET (1..MaxPageIndex), ignorecase \in BOOLEAN :
         eval = [fn |-> "generate_pdf",
                 args |-> [pages |-> pages, ignorecase |-> ignorecase],
                 done |-> FALSE, ret |-> [ok |-> FALSE, pdf |-> <<>>]]

apply_generate_pdf ==
    /\ eval.fn = "generate_pdf"
    /\ ~eval.done
    /\ eval' = [eval EXCEPT
                  !.done = TRUE,
                  !.ret = generate_pdf(eval.args.pages, eval.args.ignorecase)]
    /\ UNCHANGED <<ui_vars, pc, call, result, local_vars, env_vars, faults, hist_vars,
                   window, threads>>

PdfSpec == InitPdf /\ [][apply_generate_pdf]_vars

(***************************************************************************)
(* Properties.                                                             *)
(***************************************************************************)
Succeeded == {"Saved", "AlreadyPresent"}

Transient == {"ReadTimeout", "ConnectionError"}

\* the step is a page GET of the download pass
PageFetchStep == pc = "loop" /\ page_fetches' = page_fetches + 1

\* the step is a run of _download_and_save_image with its bookkeeping
SaveStep == pc = "save" /\ last_save'.page = current_page

CurrentUrl == PageUrl(current_id, book_id, current_page)

\* C1: a call with single_page_only = True fetches only the page of first_url
\* and requests only that page's asset, and it has returned once the download
\* attempt for that page is over.
C1_SinglePageOnly ==
    call.single_page_only =>
        /\ last_fetch.page \in {0, current_page_num}
        /\ asset_requests \subseteq {current_page_num}
        /\ (first_save # "none" => pc = "returned")

\* C2: the value returned by a single-page call is True exactly when the asset
\* of the page of first_url ended as Saved or AlreadyPresent.
C2_ReturnReflectsOutcome ==
    (call.single_page_only /\ pc = "returned") =>
        (result = "True" <=> first_save \in Succeeded)

\* C3: when a batch retry ends, the URLs it submitted to the single-page retry
\* are the entries of the failed list as it stood when the batch started, each
\* once.
C3_EveryEntryRetried ==
    (worker = "finished" /\ retry_snapshot # <<>>) => retry_log = retry_snapshot

\* C4: a batch retry removes a URL from the failed list only if the re-attempt
\* of that URL's page ended as Saved or AlreadyPresent; a URL whose re-attempt
\* failed again stays in the list.
C4_RemovedOnlyIfDownloaded ==
    [][(worker = "retry" /\ pc \in {"returned", "raised"} /\ pc' = "idle")
         => (ui_failed_urls' # ui_failed_urls => first_save \in Succeeded)]_vars

\* C5: a page GET that ends in OtherError adds the page URL to the failed list
\* once and increments failed_count once, and no page GET follows it in this
\* run.
C5_OtherErrorEndsTraversal ==
    [][/\ (PageFetchStep /\ last_fetch'.outcome = "OtherError")
            => /\ failed_urls' = Append(failed_urls, CurrentUrl)
               /\ failed_count' = failed_count + 1
       /\ (pc = "loop" /\ last_fetch.outcome = "OtherError")
            => page_fetches' # page_fetches + 1]_vars

\* C6: a page GET that ends in ReadTimeout or ConnectionError leaves the page
\* index, the chain token, the counts and the failed lists unchanged and the
\* loop at its top, and the GET that follows it is of the same URL.
C6_TransientRetriesSamePage ==
    [][/\ (PageFetchStep /\ last_fetch'.outcome \in Transient)
            => /\ pc' = "loop"
               /\ UNCHANGED <<current_page, current_id, book_id, success_count,
                              failed_count, failed_urls, ui_failed_urls>>
       /\ (PageFetchStep /\ last_fetch.outcome \in Transient)
            => last_fetch'.url = last_fetch.url]_vars

\* two GETs of the first page in a row ended in a transient failure
C6_Witness ==
    /\ pc = "loop"
    /\ page_fetches = 2
    /\ faults = 2
    /\ current_page = current_page_num
    /\ last_fetch.outcome = "ReadTimeout"
    /\ failed_count = 0

\* C7: a page body with the ban marker ends the call at once with False: no
\* asset request and no file for that page, no PDF, the counts as they were;
\* and nothing is fetched or written after the return.
C7_AbortOnBan ==
    /\ [][/\ (PageFetchStep /\ last_fetch'.outcome = "RateLimited")
               => /\ pc' = "returned"
                  /\ result' = "False"
                  /\ UNCHANGED <<files, dirs, asset_requests, pdf_calls, last_save,
                                 success_count, failed_count, failed_urls>>
          /\ (pc = "returned" /\ result = "False")
               => /\ pc' = "idle"
                  /\ UNCHANGED <<files, dirs>>]_vars
    /\ []((pc = "returned" /\ result = "False")
            => /\ last_fetch.outcome = "RateLimited"
               /\ pdf_calls = <<>>
               /\ \A k \in asset_requests : k < last_fetch.page
               /\ last_save.page < last_fetch.page)

\* page 1 was saved and page 2 carried the ban marker
C7_Witness ==
    /\ pc = "returned"
    /\ result = "False"
    /\ current_page_num = 1
    /\ last_fetch.page = 2
    /\ success_count = 1
    /\ failed_count = 0

\* C8: download_manga_from_url never ends by an exception.
C8_NoExceptionEscapes == pc # "raised"

\* C9: when <title>/<page>.jpg exists as the asset download starts, no asset
\* request is made, no file changes and the page counts as a success.
C9_ExistingFileSkipped ==
    [][(SaveStep /\ files[<<title, current_page>>] # NoFile)
         => /\ last_save'.outcome = "AlreadyPresent"
            /\ UNCHANGED <<files, dirs, asset_requests, failed_count, failed_urls>>
            /\ success_count' = success_count + 1]_vars

\* a page whose file was there counted as a success without a request
C9_Witness ==
    /\ last_save.outcome = "AlreadyPresent"
    /\ last_save.page \notin asset_requests
    /\ success_count >= 1

\* C10: a payload equal to error_image_data is rejected: no file and no
\* directory is created and the page is booked as failed; and no file the
\* downloader creates or changes has the content of error_image_data.
C10_SentinelRejected ==
    [][SaveStep
         => /\ last_save'.data = error_image_data
                 => /\ last_save'.outcome = "RejectedAsSentinel"
                    /\ UNCHANGED <<files, dirs, success_count>>
                    /\ failed_urls' = Append(failed_urls, CurrentUrl)
                    /\ failed_count' = failed_count + 1
            /\ \A p \in Paths :
                 files'[p] # files[p] => files'[p] # error_image_data]_vars

\* C18: the URL built from a page identity parses back to the same book id,
\* page index and chain token.
C18_UrlRoundTrip ==
    (eval.fn = "parse_url_info" /\ eval.done) =>
        /\ eval.ret.ok
        /\ eval.ret.book_id = eval.args.bookId
        /\ eval.ret.current_page = eval.args.pageIndex
        /\ eval.ret.current_id = eval.args.chainToken

\* a two-digit page index and a chain token that holds a "-"
C18_Witness ==
    /\ eval.fn = "parse_url_info"
    /\ eval.done
    /\ eval.args.pageIndex = 12
    /\ eval.args.chainToken = <<"a", "-">>
    /\ eval.ret.current_page = 12

\* the first element of a non-empty set of positions
First(S) == CHOOSE i \in S : \A j \in S : i <= j

\* C19: _find_next_page_id(body, k) returns None when the body has no
\* load_image call tagged k, and the token of the first call tagged k otherwise,
\* whatever calls with other indices the body holds.
C19_FirstCallTaggedK ==
    (eval.fn = "_find_next_page_id" /\ eval.done) =>
        LET calls  == eval.args.html_content.calls
            tagged == {i \in 1..Len(calls) : calls[i].num = eval.args.next_page_num}
        IN eval.ret = IF tagged = {} THEN None ELSE calls[First(tagged)].tok

\* C19 for calls written load_image(k, 'token'), with the space after the
\* comma: None when the body has no such call tagged k, and the token of the
\* first such call otherwise.
C19_FirstSpacedCallTaggedK ==
    (eval.fn = "_find_next_page_id" /\ eval.done) =>
        LET calls  == eval.args.html_content.calls
            tagged == {i \in 1..Len(calls) :
                          calls[i].num = eval.args.next_page_num /\ calls[i].spaced}
        IN eval.ret = IF tagged = {} THEN None ELSE calls[First(tagged)].tok

\* the call tagged 2 comes after one tagged 12, and its token is returned
C19_Witness ==
    /\ eval.fn = "_find_next_page_id"
    /\ eval.done
    /\ eval.args.next_page_num = 2
    /\ Len(eval.args.html_content.calls) = 2
    /\ eval.args.html_content.calls[1] = [num |-> 12, spaced |-> TRUE, tok |-> <<"a">>]
    /\ eval.args.html_content.calls[2] = [num |-> 2, spaced |-> TRUE, tok |-> <<"b">>]
    /\ eval.ret = <<"b">>

\* a src value that ends with the loader-script marker
IsMarker(src) == src # <<>> /\ src[Len(src)] = "jads.js"

\* C20: _extract_image_url returns None when no src value ends with jads.js or
\* when the marker occurrence is the last src of the body, and otherwise the src
\* value right after the (first) marker occurrence, whatever else the body holds.
C20_SrcAfterLoader ==
    (eval.fn = "_extract_image_url" /\ eval.done) =>
        LET srcs    == eval.args.html_content.srcs
            markers == {i \in 1..Len(srcs) : IsMarker(srcs[i])}
        IN eval.ret = IF markers = {} \/ First(markers) = Len(srcs) THEN None
                      ELSE srcs[First(markers) + 1]

\* an unrelated image comes first, the page image follows the loader
C20_Witness ==
    /\ eval.fn = "_extract_image_url"
    /\ eval.done
    /\ eval.args.html_content.srcs = <<(<<"ad", "png">>), LoaderSrc, AssetSrc(1)>>
    /\ eval.ret = AssetSrc(1)

\* the asset download of the page failed after the request was decided on
AssetFailed == {"RejectedAsSentinel", "TransportError", "FilesystemError"}

\* the body of the current page names the token of the next page
CarriesNextHop ==
    \E i \in 1..Len(response.calls) : response.calls[i].num = current_page + 1

\* C11: a failed asset download of page k adds k's URL to the failed list once
\* and one to failed_count, leaves the success count and the files of the
\* other pages as they were, is the only asset request for page k in the run,
\* and the traversal goes on to page k+1 when k's body names its token.
C11_AssetFailureConfined ==
    [][/\ (SaveStep /\ last_save'.outcome \in AssetFailed)
            => /\ failed_urls' = Append(failed_urls, CurrentUrl)
               /\ failed_count' = failed_count + 1
               /\ success_count' = success_count
               /\ \A p \in Paths : p # <<title, current_page>> => files'[p] = files[p]
               /\ CarriesNextHop
                    => /\ pc' = "loop"
                       /\ current_page' = current_page + 1
                       /\ \E i \in 1..Len(response.calls) :
                            current_id' = response.calls[i].tok
       /\ SaveStep => current_page \notin asset_requests]_vars

\* page 1's asset was the blocked placeholder, page 2 was saved after it
C11_Witness ==
    /\ last_save.page = 2
    /\ last_save.outcome = "Saved"
    /\ failed_urls = <<PageUrl(Tok(1), Book, 1)>>
    /\ failed_count = 1
    /\ success_count = 1
    /\ files[<<title, 1>>] = NoFile

\* every page of the chain has its file in the directory the run writes to
AllDownloaded ==
    \A k \in 1..site.len : files[<<DestDir(folder_name), k>>] # NoFile

C14_FailedListDeduplicated ==
    pc = "returned" =>
        \A i, j \in 1..Len(failed_urls) : failed_urls[i] = failed_urls[j] => i = j

\* C16: after _download_and_save_image, whether it returned or raised, the
\* page's file is absent or holds the whole payload that was fetched.
C16_AtomicWrite ==
    [][(SaveStep /\ last_save'.outcome \in {"Saved", "FilesystemError"})
         => files'[<<title, current_page>>] \in {NoFile, last_save'.data}]_vars

\* the run began at page 1, no fetch raised, no page was banned and no asset
\* download failed
AllWentWell ==
    /\ pc = "returned"
    /\ result = "True"
    /\ current_page_num = 1
    /\ faults = 0
    /\ failed_count = 0

\* n download attempts, the PDF step reached, and <title>/1.jpg .. n.jpg
WholeChainDownloaded ==
    /\ success_count + failed_count = site.len
    /\ pdf_calls = <<title>>
    /\ \A p \in Paths : files[p] # NoFile <=> (p[1] = title /\ p[2] \in 1..site.len)

\* C12: a run from page 1 of an n-page chain whose pages name the next token
\* in a load_image call, with nothing failing, makes n download attempts, gets
\* to the end of the chain and leaves exactly 1.jpg .. n.jpg in the folder.
C12_WholeChain == AllWentWell => WholeChainDownloaded

\* C12 for a chain whose calls are written load_image(k+1, 'token'), with the
\* space after the comma.
C12_WholeChainSpaced == (AllWentWell /\ ~site.compact) => WholeChainDownloaded

\* the three pages of the spaced chain are in the folder
C12_Witness ==
    /\ AllWentWell
    /\ ~site.compact
    /\ site.len = ScenarioPages
    /\ success_count = ScenarioPages
    /\ page_fetches = ScenarioPages
    /\ files[<<"T", ScenarioPages>>] = GoodJpg

\* C15: every percentage given to the progress observer is in [0, 100].
C15_ProgressInRange ==
    /\ progress.num >= 0
    /\ progress.num <= 100 * progress.den

\* the download worker is inside download_manga_from_url
InTraversal == pc \in {"enter", "count", "loop", "save"}

\* C17: closing the window is the caller's cancellation signal.  Once it is
\* given the traversal begins at most one more page iteration, and it has
\* returned its report by the time the process ends.
C17_StopsWithinOneIteration ==
    /\ window.state # "open" => page_fetches <= window.fetches + 1
    /\ window.state = "exited" => ~InTraversal

\* C21: a page whose body yields no asset URL is booked as failed (its URL
\* appended, failed_count incremented) and not as a success, whether or not
\* the page's file exists; and it does not end the traversal when the body
\* names the next page.
C21_ParseFailureIsFailure ==
    [][(SaveStep /\ ~Truthy(extract_image_url(response)))
         => /\ failed_urls' = Append(failed_urls, CurrentUrl)
            /\ failed_count' = failed_count + 1
            /\ success_count' = success_count
            /\ CarriesNextHop => pc' = "loop"]_vars

\* C22: the download pass goes the same way whatever the counting pass left in
\* total_pages: every iteration of its loop issues the GET of its page, and a
\* call whose URL parsed never ends by an exception.
C22_EstimateNotControl ==
    /\ [][(pc = "loop" /\ pc' # "idle")
            => (total_pages' = total_pages /\ page_fetches' = page_fetches + 1)]_vars
    /\ [](pc = "raised" => ~parse_url_info(call.first_url).ok)

\* the token the body received for the current page names for page n
NamedToken(body, n) ==
    {body.calls[i].tok : i \in {j \in 1..Len(body.calls) :
                                   body.calls[j].num = n /\ body.calls[j].spaced}}

\* C23: the traversal only moves forward and along the chain: an advance adds
\* exactly 1 to the page index and takes as chain token the token the body just
\* fetched for the current page names for the next index; a page after the
\* first is only fetched with the token its predecessor's body named; and the
\* call ends as completed exactly when the body of the current page names no
\* next token.
C23_ForwardTokenChained ==
    /\ [][SaveStep
            => /\ current_page' # current_page
                    => /\ current_page' = current_page + 1
                       /\ last_fetch.page = current_page
                       /\ last_fetch.outcome = "Ok"
                       /\ current_id' \in NamedToken(response, current_page + 1)
               /\ (pc' = "returned" /\ result' = "True")
                    <=> NamedToken(response, current_page + 1) = {}
               /\ pc' = "returned" => UNCHANGED <<current_page, current_id>>]_vars
    /\ [][(PageFetchStep /\ current_page > current_page_num)
            => /\ current_id \in NamedToken(response, current_page)
               /\ last_fetch'.url = PageUrl(current_id, book_id, current_page)]_vars
    /\ [][(pc \in {"loop", "save"} /\ pc' \in {"loop", "save", "returned"})
            => current_page' \in {current_page, current_page + 1}]_vars

\* page 2 was fetched with the token page 1's body named, and the call ended
\* there
C23_Witness ==
    /\ pc = "returned"
    /\ result = "True"
    /\ current_page_num = 1
    /\ current_page = 2
    /\ current_id = Tok(2)
    /\ last_fetch.url = PageUrl(Tok(2), Book, 2)
    /\ page_fetches >= 2

\* the title generate_pdf is to be called with: the folder-name override when
\* the caller gave one, else the title of the last body
ResolvedTitle ==
    IF call.custom_folder_name \notin {NoFolder, ""} THEN call.custom_folder_name
    ELSE IF response.title = NoTitle THEN "Unknown_Title" ELSE response.title

\* C24: a call that has returned True has called generate_pdf exactly once,
\* with the resolved title, after the download attempt of the last page of the
\* chain; a call that has not completed, or has returned False, has not called
\* it.
C24_PdfOncePerCompleted ==
    IF pc = "returned" /\ result = "True"
    THEN /\ pdf_calls = <<ResolvedTitle>>
         /\ last_fetch.page = current_page
         /\ last_save.page = current_page
         /\ NamedToken(response, current_page + 1) = {}
    ELSE pdf_calls = <<>>

\* a call with a folder-name override has completed a two-page chain
C24_Witness ==
    /\ pc = "returned"
    /\ result = "True"
    /\ call.custom_folder_name = "F"
    /\ response.title = "T"
    /\ pdf_calls = <<"F">>
    /\ page_fetches >= 2
    /\ current_page = 2

\* C25: a call of download_manga_from_url on a finite chain, with a network
\* whose failures do not go on for ever, returns to its caller, True at the end
\* of the chain or False after the ban marker.
C25_TraversalReturns == (pc = "enter") ~> (pc = "returned")

\* C28: while a call runs and when it has returned, failed_urls has
\* failed_count entries; and when it has returned True, success_count +
\* failed_count is the number of pages the download pass visited.
C28_CountsMatchVisits ==
    pc \in {"count", "loop", "save", "returned"} =>
        /\ Len(failed_urls) = failed_count
        /\ (pc = "returned" /\ result = "True")
             => success_count + failed_count = current_page - current_page_num + 1

\* the worker threads that have been started and have not ended
Alive == {i \in Slots : threads[i] # NoThread}

\* the worker threads that have not yet reset is_downloading
InTryBlock == {i \in Slots : threads[i].at \in {"try", "finally"}}

\* C29: at most one download or batch-retry worker thread is alive at any
\* time.
C29_OneWorkerAlive == Cardinality(Alive) <= 1

\* C29 for the part of a worker up to its reset of is_downloading: at most one
\* worker is there at any time, and is_downloading is true while one is.
C29_OneWorkerInTryBlock ==
    /\ Cardinality(InTryBlock) <= 1
    /\ InTryBlock # {} => is_downloading

\* a retry worker runs while the download worker before it is still
\* re-enabling the buttons
C29_Witness ==
    \E i, j \in Slots :
        /\ threads[i].kind = "download"
        /\ threads[i].at = "download_btn"
        /\ threads[j].kind = "retry"
        /\ threads[j].at = "try"
        /\ is_downloading

\* C30: every worker the UI starts resets is_downloading to false and
\* re-enables the button that started it, however its try block ended: the
\* flag does not stay true and no button stays disabled for ever, and every
\* worker thread comes to its end.
C30_UiUnlocksAgain ==
    /\ is_downloading ~> ~is_downloading
    /\ (window.download_btn = "disabled") ~> (window.download_btn = "normal")
    /\ (window.retry_btn = "disabled") ~> (window.retry_btn = "normal")
    /\ \A i \in Slots : (threads[i] # NoThread) ~> (threads[i] = NoThread)

\* a download worker whose try block ended by an exception has reset the flag
C30_Witness ==
    \E i \in Slots :
        /\ threads[i].kind = "download"
        /\ threads[i].ended = "exception"
        /\ threads[i].at = "download_btn"
        /\ ~is_downloading
        /\ window.download_btn = "disabled"

\* C26: when several workers save pages to the same destination directory at
\* the same time, no worker writes a page file that another worker has
\* already created: every write finds its path without a file.
C26_NoWriteAfterCreate ==
    \A i \in Slots :
        (threads[i].kind = "save" /\ threads[i].wrote) => threads[i].found = NoFile

\* C27: the failed list an invocation of download_manga_from_url leaves to its
\* caller holds exactly the URLs that invocation recorded, in order, also when
\* invocations on one MangaDownloader overlap: none from another invocation,
\* none lost to one.
C27_OwnFailureRecord ==
    \A i \in Slots :
        (threads[i].kind = "traversal" /\ threads[i].at = "returned")
            => threads[i].seen = threads[i].recorded

\* C31: a step of the page-count pre-pass requests no asset, writes no file
\* and creates no directory, and leaves success_count, failed_count and the
\* failed list as they are; when the probe raises, the pre-pass ends with
\* total_pages as counted so far; and whenever the pre-pass ends, the download
\* pass starts at the page index and chain token of the starting URL.
C31_CountPassOnlyCounts ==
    [][pc = "count" =>
         /\ asset_requests' = asset_requests
         /\ files' = files
         /\ dirs' = dirs
         /\ success_count' = success_count
         /\ failed_count' = failed_count
         /\ failed_urls' = failed_urls
         /\ (faults' # faults => (total_pages' = total_pages /\ pc' = "loop"))
         /\ (faults' = faults => total_pages' = total_pages + 1)
         /\ pc' \in {"count", "loop"}
         /\ (pc' = "loop" =>
               /\ current_id' = parse_url_info(call.first_url).current_id
               /\ current_page' = parse_url_info(call.first_url).current_page
               /\ current_page' = current_page_num
               /\ page_fetches' = 0)]_vars

\* the probe of the second page raised after the first was counted: the
\* download pass is about to start, back at the first page
C31_Witness ==
    /\ pc = "loop"
    /\ ~call.single_page_only
    /\ faults = 1
    /\ total_pages = 1
    /\ temp_current_page = current_page_num + 1
    /\ current_page = current_page_num
    /\ current_id = parse_url_info(call.first_url).current_id
    /\ current_id # temp_current_id
    /\ page_fetches = 0

\* C32: the PDF generate_pdf assembles from files named <n>.jpg has the page
\* images in ascending numeric page order, 2.jpg before 10.jpg, and each
\* image file exactly once.
C32_PdfInPageOrder ==
    (eval.fn = "generate_pdf" /\ eval.done /\ eval.ret.ok) =>
        LET pdf == eval.ret.pdf
        IN /\ Len(pdf) = Cardinality(eval.args.pages)
           /\ {pdf[k] : k \in 1..Len(pdf)} = eval.args.pages
           /\ \A k \in 1..(Len(pdf) - 1) : pdf[k] < pdf[k + 1]

====
